---- MODULE Spec2Model ----
(***************************************************************************)
(* A model of tr1d1um's translation and forwarding pipeline:               *)
(*   - translation/transport.go: decodeRequest, requestPayload and the     *)
(*     request*Payload functions, encodeResponse, encodeError;             *)
(*   - communication.go: ContextTimeoutRequester.PerformRequest (the       *)
(*     caller, its background goroutine and the request context), and      *)
(*     Tr1SendAndHandle.HandleResponse.                                    *)
(* One inbound request is followed from decoding to the written response.  *)
(*                                                                         *)
(* Byte strings of the request side are sequences of string tokens (the    *)
(* empty string of Go is the empty sequence).  Bodies of the response side *)
(* are records of one shape, see Body.                                     *)
(***************************************************************************)
EXTENDS Integers, Sequences, FiniteSets, TLC

VARIABLES
    req,        \* the inbound *http.Request: method, mux.Vars, query, headers, body
    pc,         \* position of the handling goroutine
    bodyRead,   \* has r.Body been consumed (ioutil.ReadAll)
    decoded,    \* decodeRequest's decodedRequest (the wrpRequest), or NoRequest
    decodeErr,  \* decodeRequest's err
    ctxErr,     \* ctx.Err(): NoErr while the context is live
    bgPc,       \* position of the goroutine started by PerformRequest
    doResult,   \* respObj, respErr of the goroutine (client.Do's return)
    result,     \* PerformRequest's named returns resp, err
    first,      \* history: which of "client.Do returned" / "context fired" came first
    w,          \* the caller-facing http.ResponseWriter
    handledBy   \* which function wrote the response, and its wholeBody argument

vars == <<req, pc, bodyRead, decoded, decodeErr, ctxErr, bgPc, doResult, result,
          first, w, handledBy>>

(***************************************************************************)
(* Bounds of the model.                                                    *)
(***************************************************************************)
\* longest 'names' query value, in tokens
MaxNamesLen == 2

(***************************************************************************)
(* Program constants.                                                      *)
(***************************************************************************)
StatusOK == 200
StatusInternalServerError == 500

(***************************************************************************)
(* Errors.  coded says whether the value implements common.CodedError.     *)
(***************************************************************************)
MkErr(name, coded, code, msg) ==
    [name |-> name, coded |-> coded, code |-> code, msg |-> msg]

NoErr == MkErr("nil", FALSE, 0, "")

ErrEmptyNames        == MkErr("ErrEmptyNames", TRUE, 400, "names parameter is required")
ErrMissingTable      == MkErr("ErrMissingTable", TRUE, 400, "table property is required")
ErrMissingRow        == MkErr("ErrMissingRow", TRUE, 400, "row property is required")
ErrMissingRows       == MkErr("ErrMissingRows", TRUE, 400, "rows property is required")
ErrInvalidSetWDMP    == MkErr("ErrInvalidSetWDMP", TRUE, 400, "invalid SET message")
ErrInvalidService    == MkErr("ErrInvalidService", TRUE, 400, "unsupported service")
ErrUnsupportedMethod == MkErr("ErrUnsupportedMethod", TRUE, 405, "unsupported method")
ErrTr1d1umInternal   == MkErr("ErrTr1d1umInternal", FALSE, 0, "oops! something unexpected went wrong")

\* an error of encoding/json: not a coded error
ErrJSON == MkErr("json.SyntaxError", FALSE, 0, "invalid character")
\* a transport error of client.Do: not a coded error
ErrTransport == MkErr("url.Error", FALSE, 0, "dial tcp: connection refused")
\* the two values of ctx.Err() once the context is done
ErrCanceled         == MkErr("context.Canceled", FALSE, 0, "context canceled")
ErrDeadlineExceeded == MkErr("context.DeadlineExceeded", FALSE, 0, "context deadline exceeded")

CtxErrs == {ErrCanceled, ErrDeadlineExceeded}

NamedErrors == {ErrEmptyNames, ErrMissingTable, ErrMissingRow, ErrMissingRows,
                ErrInvalidSetWDMP, ErrInvalidService, ErrUnsupportedMethod}

(***************************************************************************)
(* The inbound request.                                                    *)
(***************************************************************************)
Empty == <<>>

RECURSIVE SeqsUpTo(_, _)
SeqsUpTo(S, n) ==
    IF n = 0 THEN {Empty}
    ELSE LET shorter == SeqsUpTo(S, n - 1)
         IN  shorter \cup {Append(s, c) : s \in shorter, c \in S}

\* partial maps: a key that is absent is not in the DOMAIN
PartialMaps(K, V) == UNION {[D -> V] : D \in SUBSET K}

Methods == {"GET", "PATCH", "DELETE", "PUT", "POST", "HEAD"}

\* mux.Vars(r).  The routes of ConfigHandler define deviceid, service, parameter.
\* "parameters" is the key requestPayload looks up for the iot service.
VarsInputs ==
    {v \in PartialMaps({"service", "parameter", "parameters"}, {"iot", "config", "tbl"}) :
        /\ "service" \in DOMAIN v
        /\ v["service"] \in {"iot", "config"}
        /\ \A k \in DOMAIN v \ {"service"} : v[k] = "tbl"}

\* the URL query: 'names' and 'attributes', each absent or present
QueryInputs ==
    {q \in PartialMaps({"names", "attributes"}, SeqsUpTo({"a", ","}, MaxNamesLen)) :
        "attributes" \in DOMAIN q => q["attributes"] = <<"a">>}

\* request bodies: empty, not JSON, a JSON object of strings (a row), a JSON array
\* of rows, a JSON object that is a valid SET message, and one that is not
BodyInputs == {Empty, <<"!">>, <<"{row}">>, <<"[rows]">>, <<"{set}">>, <<"{badset}">>}

\* the three headers of a PATCH: X-Webpa-Sync-New-Cid, -Old-Cid, -Cmc
NoSyncHeaders == [newCID |-> Empty, oldCID |-> Empty, syncCMC |-> Empty]
HeaderInputs ==
    {NoSyncHeaders,
     [newCID |-> <<"n">>, oldCID |-> <<"o">>, syncCMC |-> <<"c">>],
     [newCID |-> Empty, oldCID |-> Empty, syncCMC |-> <<"c">>]}

\* the requests the model handles: every field a method reads varies.  GET and
\* PATCH are routed by "/device/{deviceid}/{service}" alone; the other methods are
\* given every map of variables, as requestPayload's own checks expect.
Requests ==
    {r \in [method : Methods, vars : VarsInputs, query : QueryInputs,
            headers : HeaderInputs, body : BodyInputs] :
        /\ r.method # "GET" => DOMAIN r.query = {}
        /\ r.method \in {"GET", "PATCH"} => DOMAIN r.vars = {"service"}
        /\ r.method # "PATCH" => r.headers = NoSyncHeaders
        /\ r.method \in {"GET", "DELETE", "HEAD"} => r.body = Empty}

\* r.FormValue(key): the empty string when the key is absent
FormValue(q, key) == IF key \in DOMAIN q THEN q[key] ELSE Empty

\* v[key] of a Go map[string]string: the empty string when the key is absent
VarGet(v, key) == IF key \in DOMAIN v THEN v[key] ELSE ""

\* ioutil.ReadAll(r.Body)
ReadAll(body) == body

(***************************************************************************)
(* strings.Split(names, ",") and the JSON encodings of the commands.       *)
(***************************************************************************)
RECURSIVE IndexOf(_, _, _)
IndexOf(s, sep, i) ==
    IF i > Len(s) THEN 0
    ELSE IF s[i] = sep THEN i
    ELSE IndexOf(s, sep, i + 1)

RECURSIVE Split(_, _)
Split(s, sep) ==
    LET i == IndexOf(s, sep, 1)
    IN  IF i = 0 THEN <<s>>
        ELSE <<SubSeq(s, 1, i - 1)>> \o Split(SubSeq(s, i + 1, Len(s)), sep)

RECURSIVE JoinJSON(_)
JoinJSON(list) ==
    IF list = Empty THEN Empty
    ELSE <<"\"">> \o Head(list) \o <<"\"">> \o JoinJSON(Tail(list))

\* json.Marshal of a command: its command string, then its fields
Marshal(command, fields) == <<"{", command>> \o fields \o <<"}">>

\* a result of a request*Payload function
Payload(p, err, read) == [payload |-> p, err |-> err, read |-> read]

(***************************************************************************)
(* Request decoding (translation/transport.go).                            *)
(***************************************************************************)
\* json.Unmarshal(data, wdmp) for a setWDMP: any JSON object decodes
UnmarshalSet(data) ==
    IF data \in {<<"{row}">>, <<"{set}">>, <<"{badset}">>}
    THEN [err |-> NoErr,
          params |-> IF data = <<"{set}">> THEN "valid"
                     ELSE IF data = <<"{badset}">> THEN "invalid" ELSE "none"]
    ELSE [err |-> ErrJSON, params |-> "none"]

\* deduceSET: the command of a SET message from the three sync headers
deduceSET(params, newCID, oldCID, syncCMC) ==
    IF syncCMC = Empty
    THEN [err |-> NoErr, command |-> "SET", cids |-> Empty]
    ELSE IF newCID = Empty \/ oldCID = Empty
    THEN [err |-> ErrInvalidSetWDMP, command |-> "", cids |-> Empty]
    ELSE [err |-> NoErr, command |-> "TEST_AND_SET", cids |-> newCID \o oldCID \o syncCMC]

\* isValidSetWDMP: the shape check of a SET message
isValidSetWDMP(params, command) ==
    \/ params = "valid"
    \/ params = "none" /\ command = "SET"

requestSetPayload(in, newCID, oldCID, syncCMC) ==
    LET data == ReadAll(in)
        u    == UnmarshalSet(data)
        d    == deduceSET(u.params, newCID, oldCID, syncCMC)
    IN  IF u.err = NoErr \/ Len(data) = 0
        THEN IF d.err = NoErr
             THEN IF ~isValidSetWDMP(u.params, d.command)
                  THEN Payload(Empty, ErrInvalidSetWDMP, TRUE)
                  ELSE Payload(Marshal(d.command, data \o d.cids), NoErr, TRUE)
             ELSE Payload(Empty, d.err, TRUE)
        ELSE Payload(Empty, u.err, TRUE)

requestGetPayload(names, attributes) ==
    IF names = Empty
    THEN Payload(Empty, ErrEmptyNames, FALSE)
    ELSE IF attributes # Empty
    THEN Payload(Marshal("GET_ATTRIBUTES", JoinJSON(Split(names, ",")) \o attributes),
                 NoErr, FALSE)
    ELSE Payload(Marshal("GET", JoinJSON(Split(names, ","))), NoErr, FALSE)

\* reads the body before it looks for the table
requestAddPayloadReadsFirst(m, input) ==
    LET payload == ReadAll(input)
    IN  IF Len(payload) = 0 THEN Payload(Empty, ErrMissingRow, TRUE)
        ELSE IF "parameter" \notin DOMAIN m THEN Payload(Empty, ErrMissingTable, TRUE)
        ELSE IF payload = <<"{row}">>
        THEN Payload(Marshal("ADD_ROW", <<m["parameter"]>> \o payload), NoErr, TRUE)
        ELSE Payload(Empty, ErrJSON, TRUE)

requestAddPayload(m, input) ==
    IF "parameter" \notin DOMAIN m
    THEN Payload(Empty, ErrMissingTable, FALSE)
    ELSE LET payload == ReadAll(input)
         IN  IF Len(payload) = 0 THEN Payload(Empty, ErrMissingRow, TRUE)
             ELSE IF payload = <<"{row}">>
             THEN Payload(Marshal("ADD_ROW", <<m["parameter"]>> \o payload), NoErr, TRUE)
             ELSE Payload(Empty, ErrJSON, TRUE)

requestReplacePayload(m, input) ==
    IF "parameter" \notin DOMAIN m
    THEN Payload(Empty, ErrMissingTable, FALSE)
    ELSE LET payload == ReadAll(input)
         IN  IF Len(payload) = 0 THEN Payload(Empty, ErrMissingRows, TRUE)
             ELSE IF payload = <<"[rows]">>
             THEN Payload(Marshal("REPLACE_ROWS", <<m["parameter"]>> \o payload), NoErr, TRUE)
             ELSE Payload(Empty, ErrJSON, TRUE)

requestDeletePayload(m) ==
    IF "parameter" \in DOMAIN m
    THEN Payload(Marshal("DELETE_ROW", <<m["parameter"]>>), NoErr, FALSE)
    ELSE Payload(Empty, ErrMissingRow, FALSE)

requestPayload(r) ==
    CASE r.method = "GET" ->
            requestGetPayload(FormValue(r.query, "names"), FormValue(r.query, "attributes"))
      [] r.method = "PATCH" ->
            requestSetPayload(r.body, r.headers.newCID, r.headers.oldCID, r.headers.syncCMC)
      [] r.method = "DELETE" -> requestDeletePayload(r.vars)
      [] r.method = "PUT" -> requestReplacePayload(r.vars, r.body)
      [] r.method = "POST" ->
            IF VarGet(r.vars, "service") = "iot"
            THEN IF VarGet(r.vars, "parameters") = ""
                 THEN Payload(ReadAll(r.body), NoErr, TRUE)
                 ELSE Payload(Empty, ErrInvalidService, FALSE)
            ELSE requestAddPayload(r.vars, r.body)
      [] OTHER -> Payload(Empty, ErrUnsupportedMethod, FALSE)

\* wrap: the envelope around a command payload
wrap(payload, tid, v) ==
    [payload |-> payload, tid |-> tid, dest |-> VarGet(v, "service")]

NoRequest == <<>>

\* wraps whatever requestPayload returned, its error ignored
decodeRequestIgnoresErr(r) ==
    LET p == requestPayload(r)
    IN  [request |-> <<wrap(p.payload, "tid", r.vars)>>, err |-> p.err, read |-> p.read]

\* decodedRequest, err of decodeRequest (and whether the body was read).  The
\* tracing lines 75-80 assign to no result of the function and are left out; the
\* transaction id is taken as present in the context.
decodeRequest(r) ==
    LET p == requestPayload(r)
    IN  IF p.err = NoErr
        THEN [request |-> <<wrap(p.payload, "tid", r.vars)>>, err |-> NoErr, read |-> p.read]
        ELSE [request |-> NoRequest, err |-> p.err, read |-> p.read]

(***************************************************************************)
(* The backend's response and the caller-facing response writer.           *)
(***************************************************************************)
\* Bytes of the response side.  wrp: the bytes are a protocol envelope; json,
\* hasCode, code: the (inner) payload is JSON, has a "statusCode", and its value;
\* msg: the "message" of an error body.
Body(wrp, json, hasCode, code, msg) ==
    [wrp |-> wrp, json |-> json, hasCode |-> hasCode, code |-> code, msg |-> msg]

\* the payload bytes an envelope carries
PayloadOf(body) == [body EXCEPT !.wrp = FALSE]

EmbeddedCodes == {0, 404, 500}

BackendBodies ==
    {Body(e, FALSE, FALSE, 0, "") : e \in BOOLEAN}
        \cup {Body(e, TRUE, FALSE, 0, "") : e \in BOOLEAN}
        \cup {Body(e, TRUE, TRUE, c, "") : e \in BOOLEAN, c \in EmbeddedCodes}

\* header names are sequences of characters, header values lists of strings
HeaderXWebpa     == <<"X", "-", "W">>
HeaderWPATID     == <<"X", "-", "T">>
HeaderContentType == <<"C", "-", "T">>
JSONContentType  == "application/json; charset=utf-8"

NoHeaders == [k \in {} |-> <<>>]

BackendHeaders ==
    {NoHeaders,
     [k \in {HeaderXWebpa, HeaderContentType} |->
        IF k = HeaderXWebpa THEN <<"1">> ELSE <<"text/plain">>]}

\* the *http.Response values client.Do can return
BackendResponses ==
    [StatusCode : {StatusOK, 503}, Body : BackendBodies, Header : BackendHeaders]

NoResponse == <<>>

\* a clientResponse, also the pair PerformRequest returns
ClientResponse(resp, err) == [resp |-> resp, err |-> err]

\* the zero value of clientResponse, which a receive from a closed channel yields
ZeroResponse == ClientResponse(NoResponse, NoErr)

\* client.Do returns a response or an error
DoOutcomes ==
    {ClientResponse(<<r>>, NoErr) : r \in BackendResponses}
        \cup {ClientResponse(NoResponse, ErrTransport)}

\* http.ResponseWriter: code 0 until the header is written
NewWriter == [code |-> 0, header |-> NoHeaders, body |-> <<>>]

WriteHeader(rw, code) == IF rw.code = 0 THEN [rw EXCEPT !.code = code] ELSE rw

\* Write sends the header with StatusOK if it was not written yet
Write(rw, bytes) ==
    [WriteHeader(rw, StatusOK) EXCEPT !.body = Append(@, bytes)]

\* Header().Set(key, value)
HeaderSet(h, key, value) ==
    [k \in DOMAIN h \cup {key} |-> IF k = key THEN <<value>> ELSE h[k]]

\* Header().Add(key, value)
HeaderAdd(h, key, value) ==
    [k \in DOMAIN h \cup {key} |->
        IF k = key THEN (IF k \in DOMAIN h THEN Append(h[k], value) ELSE <<value>>)
        ELSE h[k]]

\* strings.HasPrefix(s, p)
HasPrefix(s, p) == Len(p) <= Len(s) /\ SubSeq(s, 1, Len(p)) = p

RECURSIVE AddAll(_, _, _)
AddAll(h, key, values) ==
    IF values = <<>> THEN h
    ELSE AddAll(HeaderAdd(h, key, Head(values)), key, Tail(values))

RECURSIVE ForwardKeys(_, _, _, _)
ForwardKeys(p, from, keys, to) ==
    IF keys = {} THEN to
    ELSE LET k == CHOOSE x \in keys : TRUE
         IN  ForwardKeys(p, from, keys \ {k},
                         IF HasPrefix(k, p) THEN AddAll(to, k, from[k]) ELSE to)

\* ForwardHeadersByPrefix copies the headers of from whose key has prefix p
ForwardHeadersByPrefix(p, from, to) == ForwardKeys(p, from, DOMAIN from, to)

\* the common.XmidtResponse the translation service makes of a backend response
XmidtResponse(resp) ==
    [Code |-> resp.StatusCode, Body |-> resp.Body,
     ForwardedHeaders |-> ForwardHeadersByPrefix(<<"X">>, resp.Header, NoHeaders)]

(***************************************************************************)
(* Error encoding (translation/transport.go).                              *)
(***************************************************************************)
\* writes the message of every error, coded or not
encodeErrorLeaks(rw, err) ==
    LET h == HeaderSet(HeaderSet(rw.header, HeaderContentType, JSONContentType),
                       HeaderWPATID, "tid")
        code == IF err.coded THEN err.code ELSE StatusInternalServerError
    IN  Write(WriteHeader([rw EXCEPT !.header = h], code),
              Body(FALSE, TRUE, FALSE, 0, err.msg))

encodeError(rw, err) ==
    LET h == HeaderSet(HeaderSet(rw.header, HeaderContentType, JSONContentType),
                       HeaderWPATID, "tid")
        rw1 == [rw EXCEPT !.header = h]
    IN  IF err.coded
        THEN Write(WriteHeader(rw1, err.code), Body(FALSE, TRUE, FALSE, 0, err.msg))
        ELSE Write(WriteHeader(rw1, StatusInternalServerError),
                   Body(FALSE, TRUE, FALSE, 0, ErrTr1d1umInternal.msg))

(***************************************************************************)
(* Response encoding (translation/transport.go).                           *)
(***************************************************************************)
\* wrp.NewDecoderBytes(resp.Body, wrp.Msgpack).Decode(wrpModel)
DecodeEnvelope(body) ==
    IF body.wrp THEN [err |-> NoErr, payload |-> PayloadOf(body)]
    ELSE [err |-> ErrJSON, payload |-> body]

\* json.Unmarshal(payload, &deviceResponseModel): the StatusCode field
UnmarshalStatusCode(payload) ==
    IF payload.json
    THEN [err |-> NoErr, StatusCode |-> IF payload.hasCode THEN payload.code ELSE 0]
    ELSE [err |-> ErrJSON, StatusCode |-> 0]

\* sets Content-Type and decodes the envelope whatever the backend's status
encodeResponseAlwaysDecodes(rw, resp) ==
    LET h  == HeaderSet(HeaderSet(ForwardHeadersByPrefix(<<>>, resp.ForwardedHeaders, rw.header),
                                  HeaderWPATID, "tid"),
                        HeaderContentType, JSONContentType)
        d  == DecodeEnvelope(resp.Body)
    IN  IF d.err = NoErr
        THEN [w |-> Write(WriteHeader([rw EXCEPT !.header = h], resp.Code), d.payload),
              err |-> NoErr]
        ELSE [w |-> Write(WriteHeader([rw EXCEPT !.header = h], resp.Code), resp.Body),
              err |-> NoErr]

\* uses the device's status code even when it is the server-error code
encodeResponseKeeps500(rw, resp) ==
    LET h1  == HeaderSet(ForwardHeadersByPrefix(<<>>, resp.ForwardedHeaders, rw.header),
                         HeaderWPATID, "tid")
        rw1 == [rw EXCEPT !.header = h1]
        d   == DecodeEnvelope(resp.Body)
        rw2 == [rw1 EXCEPT !.header = HeaderSet(h1, HeaderContentType, JSONContentType)]
        u   == UnmarshalStatusCode(d.payload)
        rw3 == IF u.err = NoErr /\ u.StatusCode # 0
               THEN WriteHeader(rw2, u.StatusCode)
               ELSE rw2
    IN  IF resp.Code # StatusOK
        THEN [w |-> Write(WriteHeader(rw1, resp.Code), resp.Body), err |-> NoErr]
        ELSE IF d.err = NoErr
        THEN [w |-> Write(rw3, d.payload), err |-> NoErr]
        ELSE [w |-> rw1, err |-> d.err]

\* the response writer after encodeResponse, and its err (the span header of
\* the tracer, lines 173-177, is left out)
encodeResponse(rw, resp) ==
    LET h1  == HeaderSet(ForwardHeadersByPrefix(<<>>, resp.ForwardedHeaders, rw.header),
                         HeaderWPATID, "tid")
        rw1 == [rw EXCEPT !.header = h1]
        d   == DecodeEnvelope(resp.Body)
        rw2 == [rw1 EXCEPT !.header = HeaderSet(h1, HeaderContentType, JSONContentType)]
        u   == UnmarshalStatusCode(d.payload)
        rw3 == IF /\ u.err = NoErr
                  /\ u.StatusCode # 0
                  /\ u.StatusCode # StatusInternalServerError
               THEN WriteHeader(rw2, u.StatusCode)
               ELSE rw2
    IN  IF resp.Code # StatusOK
        THEN [w |-> Write(WriteHeader(rw1, resp.Code), resp.Body), err |-> NoErr]
        ELSE IF d.err = NoErr
        THEN [w |-> Write(rw3, d.payload), err |-> NoErr]
        ELSE [w |-> rw1, err |-> d.err]

(***************************************************************************)
(* HandleResponse (communication.go).                                      *)
(***************************************************************************)
\* ReportError writes the status and message of an error, and nothing for nil
ReportError(err, rw) ==
    IF err = NoErr THEN rw
    ELSE Write(WriteHeader(rw, IF err.coded THEN err.code ELSE StatusInternalServerError),
               Body(FALSE, TRUE, FALSE, 0, ErrTr1d1umInternal.msg))

\* encodingHelper.ExtractPayload(body, wrp.JSON)
ExtractPayload(body) == DecodeEnvelope(body)

\* GetStatusCodeFromRDKResponse: the embedded statusCode when one is given
GetStatusCodeFromRDKResponse(payload) ==
    LET u == UnmarshalStatusCode(payload)
    IN  [err |-> u.err,
         code |-> IF u.err = NoErr /\ u.StatusCode # 0 THEN u.StatusCode
                  ELSE StatusInternalServerError]

\* forwardInput writes the whole input to origin
forwardInput(origin, input) == Write(origin, input)

\* origin after HandleResponse(ch, err, respFromServer, origin, wholeBody)
HandleResponse(err, respFromServer, origin, wholeBody) ==
    LET o1 == IF respFromServer # NoResponse
              THEN [origin EXCEPT !.header =
                        ForwardHeadersByPrefix(<<"X">>, respFromServer[1].Header, @)]
              ELSE origin
        resp == respFromServer[1]
        x    == ExtractPayload(resp.Body)
        c    == GetStatusCodeFromRDKResponse(x.payload)
    IN  IF err # NoErr THEN ReportError(err, o1)
        ELSE IF resp.StatusCode # StatusOK
        THEN Write(WriteHeader(o1, resp.StatusCode), resp.Body)
        ELSE IF wholeBody THEN ReportError(NoErr, forwardInput(o1, resp.Body))
        ELSE IF x.err = NoErr
        THEN Write(IF c.err = NoErr /\ c.code # StatusInternalServerError
                   THEN WriteHeader(o1, c.code) ELSE o1,
                   x.payload)
        ELSE ReportError(x.err, o1)

(***************************************************************************)
(* The state machine: one request, from decoding to the written response.  *)
(***************************************************************************)
NotHandled == [fn |-> "none", wholeBody |-> FALSE]

Init ==
    /\ req \in Requests
    /\ pc = "decode"
    /\ bodyRead = FALSE
    /\ decoded = NoRequest
    /\ decodeErr = NoErr
    /\ ctxErr = NoErr
    /\ bgPc = "none"
    /\ doResult = ZeroResponse
    /\ result = ZeroResponse
    /\ first = "none"
    /\ w = NewWriter
    /\ handledBy = NotHandled

\* the server decodes the request; a decode error goes to the error encoder and
\* the endpoint (the backend call) is not invoked
DecodeRequest ==
    /\ pc = "decode"
    /\ LET d == decodeRequest(req)
       IN  /\ decoded' = d.request
           /\ decodeErr' = d.err
           /\ bodyRead' = d.read
           /\ pc' = IF d.err = NoErr THEN "spawn" ELSE "respond"
    /\ UNCHANGED <<req, ctxErr, bgPc, doResult, result, first, w, handledBy>>

\* the request's context is cancelled, or its deadline expires
CtxFire ==
    /\ pc # "done"
    /\ ctxErr = NoErr
    /\ \E e \in CtxErrs : ctxErr' = e
    /\ first' = IF first = "none" THEN "ctx" ELSE first
    /\ UNCHANGED <<req, pc, bodyRead, decoded, decodeErr, bgPc, doResult, result, w,
                   handledBy>>

\* PerformRequest makes the unbuffered channel and starts the goroutine
Spawn ==
    /\ pc = "spawn"
    /\ pc' = "select"
    /\ bgPc' = "do"
    /\ UNCHANGED <<req, bodyRead, decoded, decodeErr, ctxErr, doResult, result, first, w,
                   handledBy>>

\* the goroutine assigns client.Do's return to PerformRequest's named returns
ClientDoWritesResult ==
    /\ bgPc = "do"
    /\ \E o \in DoOutcomes : doResult' = o /\ result' = o
    /\ bgPc' = "send"
    /\ first' = IF first = "none" THEN "call" ELSE first
    /\ UNCHANGED <<req, pc, bodyRead, decoded, decodeErr, ctxErr, w, handledBy>>

\* the goroutine returns, closing the channel, without sending an error result
ClientDoDropsError ==
    /\ bgPc = "do"
    /\ \E o \in DoOutcomes :
        /\ doResult' = o
        /\ bgPc' = IF o.err = NoErr THEN "send" ELSE "closed"
    /\ first' = IF first = "none" THEN "call" ELSE first
    /\ UNCHANGED <<req, pc, bodyRead, decoded, decodeErr, ctxErr, result, w, handledBy>>

\* the goroutine: client.Do(request) returns; the goroutine is then at its send
ClientDo ==
    /\ bgPc = "do"
    /\ \E o \in DoOutcomes : doResult' = o
    /\ bgPc' = "send"
    /\ first' = IF first = "none" THEN "call" ELSE first
    /\ UNCHANGED <<req, pc, bodyRead, decoded, decodeErr, ctxErr, result, w, handledBy>>

\* the select's first case: a receive from responseReady.  The channel has no
\* buffer, so the receive meets the goroutine's send, or reads the zero value of
\* a closed channel.
Receive ==
    /\ pc = "select"
    /\ bgPc \in {"send", "closed"}
    /\ result' = IF bgPc = "send" THEN doResult ELSE ZeroResponse
    /\ bgPc' = IF bgPc = "send" THEN "close" ELSE bgPc
    /\ pc' = "respond"
    /\ UNCHANGED <<req, bodyRead, decoded, decodeErr, ctxErr, doResult, first, w,
                   handledBy>>

\* the second case waits for the goroutine's result as well
CtxDoneDrains ==
    /\ pc = "select"
    /\ ctxErr # NoErr
    /\ bgPc = "send"
    /\ result' = ClientResponse(NoResponse, ctxErr)
    /\ bgPc' = "close"
    /\ pc' = "respond"
    /\ UNCHANGED <<req, bodyRead, decoded, decodeErr, ctxErr, doResult, first, w,
                   handledBy>>

\* the select's second case: <-ctx.Done()
CtxDone ==
    /\ pc = "select"
    /\ ctxErr # NoErr
    /\ result' = ClientResponse(NoResponse, ctxErr)
    /\ pc' = "respond"
    /\ UNCHANGED <<req, bodyRead, decoded, decodeErr, ctxErr, bgPc, doResult, first, w,
                   handledBy>>

\* the goroutine's deferred close(responseReady), after its send
CloseChannel ==
    /\ bgPc = "close"
    /\ bgPc' = "closed"
    /\ UNCHANGED <<req, pc, bodyRead, decoded, decodeErr, ctxErr, doResult, result, first,
                   w, handledBy>>

\* the server's error encoder, for an error of the decoder or of the endpoint
EncodeError ==
    /\ pc = "respond"
    /\ decodeErr # NoErr \/ result.err # NoErr
    /\ w' = encodeError(w, IF decodeErr # NoErr THEN decodeErr ELSE result.err)
    /\ handledBy' = [fn |-> "encodeError", wholeBody |-> FALSE]
    /\ pc' = "done"
    /\ UNCHANGED <<req, bodyRead, decoded, decodeErr, ctxErr, bgPc, doResult, result,
                   first>>

\* the server's response encoder; its error goes to the error encoder
EncodeResponse ==
    /\ pc = "respond"
    /\ decodeErr = NoErr /\ result.err = NoErr
    /\ LET e == encodeResponse(w, XmidtResponse(result.resp[1]))
       IN  w' = IF e.err = NoErr THEN e.w ELSE encodeError(e.w, e.err)
    /\ handledBy' = [fn |-> "encodeResponse", wholeBody |-> FALSE]
    /\ pc' = "done"
    /\ UNCHANGED <<req, bodyRead, decoded, decodeErr, ctxErr, bgPc, doResult, result,
                   first>>

\* Tr1SendAndHandle: what Send returned is handed to HandleResponse
HandleResponseStep ==
    /\ pc = "respond"
    /\ decodeErr = NoErr
    /\ \E wholeBody \in BOOLEAN :
        /\ w' = HandleResponse(result.err, result.resp, w, wholeBody)
        /\ handledBy' = [fn |-> "HandleResponse", wholeBody |-> wholeBody]
    /\ pc' = "done"
    /\ UNCHANGED <<req, bodyRead, decoded, decodeErr, ctxErr, bgPc, doResult, result,
                   first>>

Next ==
    \/ DecodeRequest
    \/ CtxFire
    \/ Spawn
    \/ ClientDo
    \/ Receive
    \/ CtxDone
    \/ CloseChannel
    \/ EncodeError
    \/ EncodeResponse
    \/ HandleResponseStep

Spec == Init /\ [][Next]_vars

\* the select of PerformRequest: the scheduler runs the handling goroutine when
\* one of its cases can proceed; nothing makes the backend answer or the
\* context fire
SelectStep == Receive \/ CtxDone

CallerFairSpec == Spec /\ WF_vars(SelectStep)

(***************************************************************************)
(* Properties.                                                             *)
(***************************************************************************)
Returned == pc \in {"respond", "done"}

\* PerformRequest returns in this step
Returns == pc = "select" /\ pc' = "respond"

\* C1, as claimed: whenever the context has fired before the goroutine's
\* result was delivered, PerformRequest returns (nil, ctx.Err()).
C1_FiredContextReturnsCtxErr ==
    [][Returns /\ ctxErr # NoErr => result' = ClientResponse(NoResponse, ctxErr)]_vars

\* C1, amended: when PerformRequest returns while the goroutine has no result
\* ready to deliver, it returns (nil, ctx.Err()) of a fired context; and once
\* the context has fired, PerformRequest returns whether or not the goroutine
\* ever takes another step (only the handling goroutine is scheduled fairly).
C1_CancellationNeverWaits ==
    /\ [][Returns /\ bgPc # "send" =>
            ctxErr \in CtxErrs /\ result' = ClientResponse(NoResponse, ctxErr)]_vars
    /\ ((pc = "select" /\ ctxErr # NoErr) ~> Returned)

\* C1's case: PerformRequest has returned the context's error while client.Do
\* is still in flight.
C1_Witness == Returned /\ result.err \in CtxErrs /\ result.resp = NoResponse /\ bgPc = "do"

\* C2: once PerformRequest has returned the context's error, the goroutine is
\* never blocked for good: it has closed its channel, or it can take a step.
C2_BackgroundTaskTerminates ==
    (Returned /\ result.err \in CtxErrs) =>
        (bgPc = "closed" \/ ENABLED (ClientDo \/ Receive \/ CloseChannel))

\* C3, as claimed: if client.Do returned before the context fired,
\* PerformRequest returns the pair client.Do produced.
C3_FirstEventIsAuthoritative ==
    (Returned /\ first = "call") => result = doResult

\* C3, amended: PerformRequest returns the pair client.Do produced or the error
\* of a fired context, never the zero value of the closed channel; and it
\* returns client.Do's pair whenever the context has not fired when it returns.
C3_ReturnsDoResultOrCtxErr ==
    [][Returns =>
        /\ result' # ZeroResponse
        /\ \/ bgPc = "send" /\ result' = doResult
           \/ ctxErr \in CtxErrs /\ result' = ClientResponse(NoResponse, ctxErr)
        /\ ctxErr = NoErr => bgPc = "send" /\ result' = doResult]_vars

\* C3's case: client.Do returned first and PerformRequest returned its pair.
C3_Witness == Returned /\ first = "call" /\ result = doResult /\ result # ZeroResponse

\* C4: a decode that fails with a named error produces no wrapped request and
\* no backend call is made; a GET with empty or missing names fails with
\* EmptyNames.
C4_FailedDecodeMakesNoCall ==
    /\ decodeErr \in NamedErrors =>
        /\ decoded = NoRequest
        /\ Returned
        /\ bgPc = "none"
        /\ doResult = ZeroResponse
    /\ (pc # "decode" /\ req.method = "GET" /\ FormValue(req.query, "names") = Empty) =>
        decodeErr = ErrEmptyNames

\* C4's case: a GET without the names parameter was answered with EmptyNames.
C4_Witness ==
    /\ pc = "done"
    /\ req.method = "GET"
    /\ "names" \notin DOMAIN req.query
    /\ decodeErr = ErrEmptyNames

\* a path variable besides the service
ExtraPathParameter(v) == DOMAIN v \ {"service"} # {}

\* C5: a POST to the iot service returns the whole body as the payload when
\* there is no extra path parameter, and fails with InvalidService, the body
\* not forwarded, when there is one.
C5_IotPassthrough ==
    (pc # "decode" /\ req.method = "POST" /\ VarGet(req.vars, "service") = "iot") =>
        IF ExtraPathParameter(req.vars)
        THEN decodeErr = ErrInvalidService /\ decoded = NoRequest
        ELSE decodeErr = NoErr /\ decoded # NoRequest /\ decoded[1].payload = req.body

\* a backend response with status OK was unwrapped as an envelope
Unwrapped ==
    /\ pc = "done"
    /\ result.resp # NoResponse
    /\ result.resp[1].StatusCode = StatusOK
    /\ result.resp[1].Body.wrp
    /\ \/ handledBy.fn = "encodeResponse"
       \/ handledBy.fn = "HandleResponse" /\ ~handledBy.wholeBody

\* C6: an unwrapped OK response has the payload's statusCode when that is
\* present, non-zero and not 500, and 200 otherwise; its body is the payload.
C6_StatusFromPayload ==
    Unwrapped =>
        LET payload == PayloadOf(result.resp[1].Body)
        IN  /\ w.code = IF /\ payload.json
                           /\ payload.hasCode
                           /\ payload.code # 0
                           /\ payload.code # StatusInternalServerError
                        THEN payload.code
                        ELSE StatusOK
            /\ w.body = <<payload>>
            /\ w.body # <<result.resp[1].Body>>

\* C6's case: the payload's 404 became the status of the response.
C6_Witness ==
    /\ Unwrapped
    /\ handledBy.fn = "encodeResponse"
    /\ result.resp[1].Body.hasCode
    /\ result.resp[1].Body.code = 404
    /\ w.code = 404

\* a backend response with another status than OK was answered
Mirrored ==
    /\ pc = "done"
    /\ result.resp # NoResponse
    /\ result.resp[1].StatusCode # StatusOK
    /\ handledBy.fn \in {"encodeResponse", "HandleResponse"}

\* C7: a backend response whose status is not 200 is answered with that status
\* and that body, not decoded, and no Content-Type is set, with or without
\* wholeBody.
C7_NonOKIsMirrored ==
    Mirrored =>
        /\ w.code = result.resp[1].StatusCode
        /\ w.body = <<result.resp[1].Body>>
        /\ HeaderContentType \notin DOMAIN w.header

\* C7's case: a 503 whose body is an envelope was forwarded as it came.
C7_Witness ==
    /\ Mirrored
    /\ handledBy.fn = "encodeResponse"
    /\ result.resp[1].Body.wrp
    /\ HeaderContentType \in DOMAIN result.resp[1].Header
    /\ w.code = 503

\* the error the error encoder was given
EncodedErr == IF decodeErr # NoErr THEN decodeErr ELSE result.err

\* C8: encodeError answers a coded error with its status code and its message,
\* and any other error with 500 and the fixed internal-error message.
C8_ErrorsAreClassified ==
    (pc = "done" /\ handledBy.fn = "encodeError") =>
        /\ Len(w.body) = 1
        /\ EncodedErr.coded =>
              w.code = EncodedErr.code /\ w.body[1].msg = EncodedErr.msg
        /\ ~EncodedErr.coded =>
              /\ w.code = StatusInternalServerError
              /\ w.body[1].msg = ErrTr1d1umInternal.msg
              /\ w.body[1].msg # EncodedErr.msg

\* C8's case: the context's error was answered with 500 and the fixed message.
C8_Witness ==
    /\ pc = "done"
    /\ handledBy.fn = "encodeError"
    /\ result.err \in CtxErrs
    /\ w.code = StatusInternalServerError

\* C9: a PUT, or a POST to another service than iot, without the table
\* variable fails with MissingTable and its body is not read, whatever it is.
C9_MissingTableBeforeRead ==
    (/\ pc # "decode"
     /\ "parameter" \notin DOMAIN req.vars
     /\ \/ req.method = "PUT"
        \/ req.method = "POST" /\ VarGet(req.vars, "service") # "iot") =>
        decodeErr = ErrMissingTable /\ ~bodyRead /\ decoded = NoRequest

\* C9's case: a POST with an empty body and no table failed with MissingTable.
C9_Witness ==
    /\ pc = "done"
    /\ req.method = "POST"
    /\ req.body = Empty
    /\ "parameter" \notin DOMAIN req.vars
    /\ decodeErr = ErrMissingTable
    /\ ~bodyRead

\* C10: once PerformRequest has returned the context's error, no step changes
\* what it returned, the goroutine's result is never received, and no step of
\* the goroutine writes to the response.
C10_LateCompletionHasNoEffect ==
    [][(Returned /\ result.err \in CtxErrs) =>
        /\ result' = result
        /\ bgPc' \in {"do", "send"}
        /\ (bgPc' # bgPc \/ doResult' # doResult) => w' = w]_vars

\* C10's case: the backend answered, and PerformRequest had returned the
\* context's error.
C10_Witness ==
    /\ pc = "done"
    /\ result.err \in CtxErrs
    /\ bgPc = "send"
    /\ doResult.err = NoErr
    /\ doResult.resp # NoResponse

====
